---- MODULE Spec2Model ----
(***************************************************************************)
(* Subtitle-Sensei, backend/src/app.py: the SRT time codec, the parser and *)
(* serializer, the analysis and the fix pipeline behind /api/analyze and   *)
(* /api/fix.                                                               *)
(*                                                                         *)
(* Representation.                                                         *)
(*   str        a sequence of code points; bytes, a sequence of 0..255     *)
(*   int        [neg, mag] where the program reads it from text or does    *)
(*              time arithmetic with it: mag a natural of any size, in     *)
(*              limbs of base 10^4, the least significant first; lengths,  *)
(*              counts and positions are TLA+ integers                     *)
(*   float      an IEEE-754 double, held exactly as [neg, man, exp]: the   *)
(*              value (+/-) man * 2^exp, man an odd natural in limbs of    *)
(*              base 2^15; every operation rounds the exact result to 53   *)
(*              bits, ties to even. The sign of zero, infinities and the   *)
(*              limits of the exponent are not kept: no value the program  *)
(*              computes from timedeltas and line lengths reaches them.    *)
(*   timedelta  [ms]: a whole number of milliseconds as an int (every      *)
(*              timedelta the program builds is one)                       *)
(*   None       the record [none |-> TRUE]                                 *)
(*   list       a sequence; the positions 0..n-1 of the source are 1..n    *)
(*   exception  the record [raised |-> class name]. A function that may    *)
(*              raise returns the exception in place of its value; where   *)
(*              the value is a str or a list it returns [value |-> v], and *)
(*              where it mutates its argument before raising it returns    *)
(*              the pair <<argument as mutated, exception or None>>.       *)
(*                                                                         *)
(* Not modelled: the message of an exception (the 500 responses carry the  *)
(* class name where the program sends str(e)) and the JSON text jsonify    *)
(* writes (a response keeps the dict). The str literals of the messages    *)
(* and header values that no operation reads are TLA+ strings.             *)
(***************************************************************************)
EXTENDS Integers, Sequences, FiniteSets, TLC

VARIABLES
    pc,          \* where the running driver or handler stands
    upload,      \* request: request.files['file'], or None
    endpoint,    \* request: "analyze" or "fix"
    content,     \* the text handed to parse_srt (request: the file decoded)
    subtitles,   \* the list parse_srt returned, mutated in place afterwards
    analysis,    \* the dict analyze_subtitles returned, or None
    before,      \* the subtitles as apply_fixes received them
    response,    \* request: the HTTP response, or None
    written,     \* what write_srt returned, or None
    reparsed,    \* parse_srt of written, or None
    stamp,       \* codec: a timestamp string
    td,          \* codec: parse_time(stamp), or None
    formatted    \* codec: format_time(td), or None

vars == <<pc, upload, endpoint, content, subtitles, analysis, before, response,
          written, reparsed, stamp, td, formatted>>

None == [none |-> TRUE]

----------------------------------------------------------------------------
(* Exceptions *)

ValueError == [raised |-> "ValueError"]

IndexError == [raised |-> "IndexError"]

OverflowError == [raised |-> "OverflowError"]

TypeError == [raised |-> "TypeError"]

AttributeError == [raised |-> "AttributeError"]

StatisticsError == [raised |-> "StatisticsError"]

UnicodeDecodeError == [raised |-> "UnicodeDecodeError"]

Raised(x) == "raised" \in DOMAIN x

\* the list f with every element evaluated, once
List(f) == <<>> \o f

----------------------------------------------------------------------------
(* Natural numbers of any size: a sequence of limbs in base B, the least   *)
(* significant first, without a zero as the last limb. B * B fits an int.   *)

Max(a, b) == IF a > b THEN a ELSE b

Min(a, b) == IF a < b THEN a ELSE b

Limb(a, k) == IF k <= Len(a) THEN a[k] ELSE 0

Zeros(n) == [k \in 1..n |-> 0]

\* the greatest k in lo..hi with a[k] # 0, or 0
RECURSIVE TopLimb(_, _, _)
TopLimb(a, lo, hi) ==
    IF lo > hi THEN 0
    ELSE IF a[hi] # 0 THEN hi
    ELSE IF lo = hi THEN 0
    ELSE LET mid == (lo + hi) \div 2
             top == TopLimb(a, mid + 1, hi)
         IN IF top # 0 THEN top ELSE TopLimb(a, lo, mid)

Trim(a) == SubSeq(a, 1, TopLimb(a, 1, Len(a)))

\* the limbs of a small n >= 0
RECURSIVE NatOf(_, _)
NatOf(n, B) == IF n = 0 THEN <<>> ELSE <<n % B>> \o NatOf(n \div B, B)

\* a < b
NatLess(a, b) ==
    IF Len(a) # Len(b) THEN Len(a) < Len(b)
    ELSE LET k == TopLimb([j \in 1..Len(a) |-> IF a[j] = b[j] THEN 0 ELSE 1],
                          1, Len(a))
         IN k # 0 /\ a[k] < b[k]

\* limbs lo..hi of a + b + carry, as <<limbs, carry out>>
RECURSIVE AddLimbs(_, _, _, _, _, _)
AddLimbs(a, b, lo, hi, carry, B) ==
    IF lo = hi
    THEN LET t == Limb(a, lo) + Limb(b, lo) + carry
         IN <<(<<t % B>>), t \div B>>
    ELSE LET mid  == (lo + hi) \div 2
             low  == AddLimbs(a, b, lo, mid, carry, B)
             high == AddLimbs(a, b, mid + 1, hi, low[2], B)
         IN <<low[1] \o high[1], high[2]>>

\* limbs and a carry out, <<limbs, carry>>, as one natural
Carried(sum, B) == sum[1] \o NatOf(sum[2], B)

\* a + b
NatAdd(a, b, B) ==
    IF a = <<>> THEN b
    ELSE IF b = <<>> THEN a
    ELSE Carried(AddLimbs(a, b, 1, Max(Len(a), Len(b)), 0, B), B)

\* limbs lo..hi of a - b - borrow, as <<limbs, borrow out>>
RECURSIVE SubLimbs(_, _, _, _, _, _)
SubLimbs(a, b, lo, hi, borrow, B) ==
    IF lo = hi
    THEN LET t == Limb(a, lo) - Limb(b, lo) - borrow
         IN IF t < 0 THEN <<(<<t + B>>), 1>> ELSE <<(<<t>>), 0>>
    ELSE LET mid  == (lo + hi) \div 2
             low  == SubLimbs(a, b, lo, mid, borrow, B)
             high == SubLimbs(a, b, mid + 1, hi, low[2], B)
         IN <<low[1] \o high[1], high[2]>>

\* a - b, for a >= b
NatSub(a, b, B) ==
    IF b = <<>> THEN a ELSE Trim(SubLimbs(a, b, 1, Len(a), 0, B)[1])

\* limbs lo..hi of a * c + carry for a small c, as <<limbs, carry out>>
RECURSIVE TimesLimbs(_, _, _, _, _, _)
TimesLimbs(a, c, lo, hi, carry, B) ==
    IF lo = hi
    THEN LET t == a[lo] * c + carry
         IN <<(<<t % B>>), t \div B>>
    ELSE LET mid  == (lo + hi) \div 2
             low  == TimesLimbs(a, c, lo, mid, carry, B)
             high == TimesLimbs(a, c, mid + 1, hi, low[2], B)
         IN <<low[1] \o high[1], high[2]>>

\* a * c for a small c >= 0 (c * B fits an int)
NatTimes(a, c, B) ==
    IF a = <<>> \/ c = 0 THEN <<>>
    ELSE Carried(TimesLimbs(a, c, 1, Len(a), 0, B), B)

\* a * B^n
NatShift(a, n) == IF a = <<>> THEN <<>> ELSE Zeros(n) \o a

\* a * (limbs lo..hi of b)
RECURSIVE MulLimbs(_, _, _, _, _)
MulLimbs(a, b, lo, hi, B) ==
    IF lo = hi THEN NatTimes(a, b[lo], B)
    ELSE LET mid == (lo + hi) \div 2
         IN NatAdd(MulLimbs(a, b, lo, mid, B),
                   NatShift(MulLimbs(a, b, mid + 1, hi, B), mid - lo + 1), B)

\* a * b
NatMul(a, b, B) ==
    IF a = <<>> \/ b = <<>> THEN <<>> ELSE MulLimbs(a, b, 1, Len(b), B)

\* long division of limbs hi down to lo of a by a small c, rem carried in
\* from above: <<quotient limbs, the most significant first, remainder>>
RECURSIVE OverLimbs(_, _, _, _, _, _)
OverLimbs(a, c, lo, hi, rem, B) ==
    IF lo = hi
    THEN LET t == rem * B + a[lo]
         IN <<(<<t \div c>>), t % c>>
    ELSE LET mid  == (lo + hi) \div 2
             high == OverLimbs(a, c, mid + 1, hi, rem, B)
             low  == OverLimbs(a, c, lo, mid, high[2], B)
         IN <<high[1] \o low[1], low[2]>>

Reverse(s) == [k \in 1..Len(s) |-> s[Len(s) + 1 - k]]

\* <<quotient limbs, the most significant first, remainder>> with the
\* quotient as a natural
Quotient(q) == <<Trim(Reverse(q[1])), q[2]>>

\* <<a \div c, a % c>> for a small c > 0 (c * B fits an int)
NatOver(a, c, B) ==
    IF a = <<>> THEN <<(<<>>), 0>>
    ELSE Quotient(OverLimbs(a, c, 1, Len(a), 0, B))

\* the greatest d in lo..hi with b * d <= a (lo is one such d)
RECURSIVE QuotientLimb(_, _, _, _, _)
QuotientLimb(a, b, lo, hi, B) ==
    IF lo >= hi THEN lo
    ELSE LET mid == (lo + hi + 1) \div 2
         IN IF NatLess(a, NatTimes(b, mid, B))
            THEN QuotientLimb(a, b, lo, mid - 1, B)
            ELSE QuotientLimb(a, b, mid, hi, B)

\* one step of the long division by b, on cur = rem * B + the next limb of
\* a: <<the quotient limb d, cur - b * d>>
DivDigit(cur, b, d, B) == <<(<<d>>), NatSub(cur, NatTimes(b, d, B), B)>>

\* d is searched between the quotients of the two leading limbs of cur by
\* the leading limb of b, plus one and as it is
DivStep(cur, b, B) ==
    LET top == Limb(cur, Len(b) + 1) * B + Limb(cur, Len(b))
    IN DivDigit(cur, b,
                QuotientLimb(cur, b, top \div (b[Len(b)] + 1),
                             Min(B - 1, top \div b[Len(b)]), B), B)

\* long division of limbs hi down to lo of a by b > 0, rem < b carried in
\* from above: <<quotient limbs, the most significant first, remainder>>
RECURSIVE DivLimbs(_, _, _, _, _, _)
DivLimbs(a, b, lo, hi, rem, B) ==
    IF lo = hi THEN DivStep(Trim(<<a[lo]>> \o rem), b, B)
    ELSE LET mid  == (lo + hi) \div 2
             high == DivLimbs(a, b, mid + 1, hi, rem, B)
             low  == DivLimbs(a, b, lo, mid, high[2], B)
         IN <<high[1] \o low[1], low[2]>>

\* <<a \div b, a % b>> by long division, for b > 0
LongDivision(a, b, B) == Quotient(DivLimbs(a, b, 1, Len(a), <<>>, B))

\* <<quotient, remainder>> with the remainder, a small integer, as a natural
WithRemainder(q, B) == <<q[1], NatOf(q[2], B)>>

\* <<quotient, remainder>> with the remainder divided by the small d
Unscaled(q, d, B) == <<q[1], NatOver(q[2], d, B)[1]>>

\* <<a \div b, a % b>> for b > 0. Both are scaled by d first, which brings
\* the last limb of b to B / 2 or more and the bounds QuotientLimb starts
\* from within 2 of each other.
NatDivMod(a, b, B) ==
    IF NatLess(a, b) THEN <<(<<>>), a>>
    ELSE IF Len(b) = 1 THEN WithRemainder(NatOver(a, b[1], B), B)
    ELSE Unscaled(LongDivision(NatTimes(a, B \div (b[Len(b)] + 1), B),
                               NatTimes(b, B \div (b[Len(b)] + 1), B), B),
                  B \div (b[Len(b)] + 1), B)

----------------------------------------------------------------------------
(* Python int, where the program reads it from text or computes it from    *)
(* times: [neg, mag], mag a natural in base 10^4; no negative zero.        *)

\* (+/-)a + (+/-)b as [neg, mag], in base B
SignedAdd(aneg, a, bneg, b, B) ==
    LET signed(neg, mag) == [neg |-> neg /\ mag # <<>>, mag |-> mag]
    IN IF aneg = bneg THEN signed(aneg, NatAdd(a, b, B))
       ELSE IF NatLess(a, b) THEN signed(bneg, NatSub(b, a, B))
       ELSE signed(aneg, NatSub(a, b, B))

\* the int a TLC integer n stands for
IntOf(n) == IF n < 0 THEN [neg |-> TRUE, mag |-> NatOf(0 - n, 10000)]
            ELSE [neg |-> FALSE, mag |-> NatOf(n, 10000)]

IsInt(x) == "mag" \in DOMAIN x

IntNeg(x) == [neg |-> ~x.neg /\ x.mag # <<>>, mag |-> x.mag]

IntAdd(x, y) == SignedAdd(x.neg, x.mag, y.neg, y.mag, 10000)

IntSub(x, y) == IntAdd(x, IntNeg(y))

\* x * c for a TLC integer 0 <= c < 200000
IntTimes(x, c) ==
    LET signed(product) == [neg |-> x.neg /\ product # <<>>, mag |-> product]
    IN signed(NatTimes(x.mag, c, 10000))

\* x < y
IntLess(x, y) ==
    IF x.neg # y.neg THEN x.neg
    ELSE IF x.neg THEN NatLess(y.mag, x.mag) ELSE NatLess(x.mag, y.mag)

----------------------------------------------------------------------------
(* Naturals in base 2^15: bits *)

Pow2(k) == 2 ^ k

\* int.bit_length()
BitLength(a) ==
    IF a = <<>> THEN 0
    ELSE LET top == a[Len(a)]
         IN 15 * (Len(a) - 1)
            + (CHOOSE k \in 1..15 : Pow2(k - 1) <= top /\ top < Pow2(k))

\* a << n
ShiftLeft(a, n) == NatShift(NatTimes(a, Pow2(n % 15), 32768), n \div 15)

\* a >> n
ShiftRight(a, n) ==
    IF n \div 15 >= Len(a) THEN <<>>
    ELSE NatOver(SubSeq(a, n \div 15 + 1, Len(a)), Pow2(n % 15), 32768)[1]

\* a % 2^n # 0
LowBits(a, n) ==
    \/ \E k \in 1..Min(n \div 15, Len(a)) : a[k] # 0
    \/ Limb(a, n \div 15 + 1) % Pow2(n % 15) # 0

\* bit n of a, the lowest being bit 0
Bit(a, n) == (Limb(a, n \div 15 + 1) \div Pow2(n % 15)) % 2

\* the number of zero bits below the lowest set bit of a # 0
TrailingZeros(a) ==
    LET k == CHOOSE j \in 1..Len(a) : a[j] # 0 /\ \A i \in 1..(j - 1) : a[i] = 0
        z == CHOOSE t \in 0..14 : a[k] % Pow2(t) = 0 /\ a[k] % Pow2(t + 1) # 0
    IN 15 * (k - 1) + z

\* from^k as a natural in base to
RECURSIVE BasePower(_, _, _)
BasePower(k, from, to) ==
    IF k = 0 THEN <<1>>
    ELSE IF k = 1 THEN NatOf(from, to)
    ELSE NatMul(BasePower(k \div 2, from, to),
                BasePower(k - k \div 2, from, to), to)

\* the limbs lo..hi of a, read in base from, as a natural in base to
RECURSIVE Rebase(_, _, _, _, _)
Rebase(a, lo, hi, from, to) ==
    IF lo > hi THEN <<>>
    ELSE IF lo = hi THEN NatOf(a[lo], to)
    ELSE LET mid == (lo + hi) \div 2
         IN NatAdd(Rebase(a, lo, mid, from, to),
                   NatMul(Rebase(a, mid + 1, hi, from, to),
                          BasePower(mid - lo + 1, from, to), to), to)

\* base 10^4 to base 2^15 and back
Binary(a) == Rebase(a, 1, Len(a), 10000, 32768)

Decimal(a) == Rebase(a, 1, Len(a), 32768, 10000)

\* math.isqrt(a): Newton's iteration from x above the root
RECURSIVE Newton(_, _)
Newton(a, x) ==
    LET next(y) == IF NatLess(y, x) THEN Newton(a, y) ELSE x
    IN next(NatOver(NatAdd(x, NatDivMod(a, x, 32768)[1], 32768), 2, 32768)[1])

isqrt(a) ==
    IF a = <<>> THEN <<>> ELSE Newton(a, ShiftLeft(<<1>>, (BitLength(a) + 1) \div 2))

----------------------------------------------------------------------------
(* Python float: an IEEE-754 double, held exactly as [neg, man, exp], the  *)
(* value (+/-) man * 2^exp with man an odd natural in base 2^15; zero is   *)
(* [FALSE, <<>>, 0]. Every operation computes the exact result and rounds  *)
(* it to 53 significant bits, ties to even.                                *)

\* (+/-) man * 2^exp with the zero bits of man moved into the exponent
Dyadic(neg, man, exp) ==
    IF man = <<>> THEN [neg |-> FALSE, man |-> <<>>, exp |-> 0]
    ELSE [neg |-> neg, man |-> ShiftRight(man, TrailingZeros(man)),
          exp |-> exp + TrailingZeros(man)]

\* m, of 55 bits or more, cut to the 53 bits of kept: up by one where the
\* first bit dropped is set and a bit below it, sticky, or the last bit
\* kept is
RoundKept(neg, m, kept, drop, exp, sticky) ==
    Dyadic(neg,
           IF /\ Bit(m, drop - 1) = 1
              /\ (sticky \/ LowBits(m, drop - 1) \/ Bit(kept, 0) = 1)
           THEN NatAdd(kept, <<1>>, 32768) ELSE kept,
           exp + drop)

RoundBits(neg, m, exp, sticky) ==
    RoundKept(neg, m, ShiftRight(m, BitLength(m) - 53), BitLength(m) - 53, exp,
              sticky)

\* The double nearest to (+/-)(man + e) * 2^exp, where 0 < e < 1 if sticky
\* and e = 0 if not
Round53(neg, man, exp, sticky) ==
    IF BitLength(man) <= 53 /\ ~sticky THEN Dyadic(neg, man, exp)
    ELSE RoundBits(neg, ShiftLeft(man, Max(0, 55 - BitLength(man))),
                   exp - Max(0, 55 - BitLength(man)), sticky)

\* The double nearest to (+/-)(q[1] + e) * 2^exp, 0 < e < 1 where the
\* remainder q[2] is not zero
RoundQuotient(neg, q, exp) == Round53(neg, q[1], exp, q[2] # <<>>)

\* The double nearest to (+/-)(num / den) * 2^exp
RoundRatio(neg, num, den, exp) ==
    IF num = <<>> THEN Dyadic(FALSE, <<>>, 0)
    ELSE LET shift == Max(0, 55 + BitLength(den) - BitLength(num))
         IN RoundQuotient(neg, NatDivMod(ShiftLeft(num, shift), den, 32768),
                          exp - shift)

\* float(x) for an int x
FloatOfInt(x) == Round53(x.neg, Binary(x.mag), 0, FALSE)

\* an int or a float as a float, as the mixed operators convert it
AsFloat(x) == IF IsInt(x) THEN FloatOfInt(x) ELSE x

\* the exact value of an int or a float
Exact(x) == IF IsInt(x) THEN Dyadic(x.neg, Binary(x.mag), 0) ELSE x

\* the signed natural sum, times 2^e
Scaled(sum, e) == [neg |-> sum.neg, man |-> sum.mag, exp |-> e]

\* x + y, exactly
DyadicSum(x, y) ==
    LET e == IF x.man = <<>> THEN y.exp
             ELSE IF y.man = <<>> THEN x.exp ELSE Min(x.exp, y.exp)
    IN Scaled(SignedAdd(x.neg, ShiftLeft(x.man, x.exp - e),
                        y.neg, ShiftLeft(y.man, y.exp - e), 32768), e)

\* x * y, exactly
DyadicProduct(x, y) ==
    [neg |-> x.neg # y.neg, man |-> NatMul(x.man, y.man, 32768),
     exp |-> x.exp + y.exp]

FloatNeg(x) == [x EXCEPT !.neg = ~x.neg /\ x.man # <<>>]

\* x < y for ints and floats: Python compares the exact values
Less(x, y) ==
    LET negative(d) == d.neg /\ d.man # <<>>
    IN negative(DyadicSum(Exact(x), FloatNeg(Exact(y))))

Rounded(d) == Round53(d.neg /\ d.man # <<>>, d.man, d.exp, FALSE)

\* x + y, x * y, x / y (y # 0) where at least one is a float
FloatAdd(x, y) == Rounded(DyadicSum(AsFloat(x), AsFloat(y)))

FloatTimes(x, y) == Rounded(DyadicProduct(AsFloat(x), AsFloat(y)))

\* a / b for floats, b # 0
DyadicRatio(a, b) == RoundRatio(a.neg # b.neg, a.man, b.man, a.exp - b.exp)

FloatOver(x, y) == DyadicRatio(AsFloat(x), AsFloat(y))

\* C fmod(x, y) for y # 0: x - n * y for the integer n that leaves a result
\* with the sign of x and a magnitude below that of y; it is exact
fmod(x, y) ==
    IF x.man = <<>> THEN x
    ELSE LET e == Min(x.exp, y.exp)
         IN Dyadic(x.neg,
                   NatDivMod(ShiftLeft(x.man, x.exp - e),
                             ShiftLeft(y.man, y.exp - e), 32768)[2],
                   e)

\* C floor(x)
floor(x) ==
    IF x.exp >= 0 THEN x
    ELSE LET below(whole) ==
                 Dyadic(x.neg,
                        IF x.neg THEN NatAdd(whole, <<1>>, 32768) ELSE whole, 0)
         IN below(ShiftRight(x.man, 0 - x.exp))

\* float_rem of floatobject.c, on mod = fmod(vx, wx): mod takes the sign of
\* wx
float_rem(wx, mod) ==
    IF mod.man # <<>> /\ wx.neg # mod.neg THEN Rounded(DyadicSum(mod, wx))
    ELSE mod

\* x % y
FloatMod(x, y) == float_rem(AsFloat(y), fmod(AsFloat(x), AsFloat(y)))

\* the end of _float_div_mod: floor(div), or the float above it where div
\* is more than 0.5 from it
floordiv(div) ==
    IF div.man = <<>> THEN div
    ELSE IF Less(Dyadic(FALSE, <<1>>, -1),
                 Rounded(DyadicSum(div, FloatNeg(floor(div)))))
    THEN Rounded(DyadicSum(floor(div), Dyadic(FALSE, <<1>>, 0)))
    ELSE floor(div)

\* float_floor_div of floatobject.c, on mod = fmod(vx, wx): div is
\* (vx - mod) / wx, less 1.0 where mod has not the sign of wx
float_floor_div(vx, wx, mod) ==
    floordiv(IF mod.man # <<>> /\ wx.neg # mod.neg
             THEN Rounded(DyadicSum(
                      DyadicRatio(Rounded(DyadicSum(vx, FloatNeg(mod))), wx),
                      Dyadic(TRUE, <<1>>, 0)))
             ELSE DyadicRatio(Rounded(DyadicSum(vx, FloatNeg(mod))), wx))

\* x // y
FloatFloorDiv(x, y) ==
    float_floor_div(AsFloat(x), AsFloat(y), fmod(AsFloat(x), AsFloat(y)))

\* the int (+/-)whole, whole a natural in base 2^15
IntFrom(neg, whole) == [neg |-> neg /\ whole # <<>>, mag |-> Decimal(whole)]

\* int(x) for a float x: towards zero
FloatToInt(x) ==
    IntFrom(x.neg, IF x.exp >= 0 THEN ShiftLeft(x.man, x.exp)
                   ELSE ShiftRight(x.man, 0 - x.exp))

----------------------------------------------------------------------------
(* Python str: a sequence of code points; bytes: a sequence of 0..255 *)

\* the characters U+0020 to U+007E but U+0060
Printable ==
    <<" ", "!", "\"", "#", "$", "%", "&", "'", "(", ")", "*", "+", ",", "-",
      ".", "/", "0", "1", "2", "3", "4", "5", "6", "7", "8", "9", ":", ";",
      "<", "=", ">", "?", "@", "A", "B", "C", "D", "E", "F", "G", "H", "I",
      "J", "K", "L", "M", "N", "O", "P", "Q", "R", "S", "T", "U", "V", "W",
      "X", "Y", "Z", "[", "\\", "]", "^", "_", "a", "b", "c", "d", "e",
      "f", "g", "h", "i", "j", "k", "l", "m", "n", "o", "p", "q", "r", "s",
      "t", "u", "v", "w", "x", "y", "z", "{", "|", "}", "~">>

\* ord(c) for a printable ASCII character
ord(c) ==
    LET k == CHOOSE j \in 1..94 : Printable[j] = c
    IN IF k <= 64 THEN 31 + k ELSE 32 + k

\* the str a sequence of printable ASCII characters spells
Text(chars) == [k \in 1..Len(chars) |-> ord(chars[k])]

\* str.isspace(): U+0009..U+000D, U+001C..U+0020, U+0085, U+00A0, U+1680,
\* U+2000..U+200A, U+2028, U+2029, U+202F, U+205F, U+3000
Whitespace ==
    (9..13) \cup (28..32) \cup {133, 160, 5760} \cup (8192..8202)
    \cup {8232, 8233, 8239, 8287, 12288}

\* what int() skips around a literal: the ASCII whitespace of C, and the
\* whitespace outside ASCII, which it turns into spaces first
IntSpace == Whitespace \ (28..31)

\* the digit zero of every run of decimal digits (category Nd)
DecimalZeros ==
    {48, 1632, 1776, 1984, 2406, 2534, 2662, 2790, 2918, 3046, 3174, 3302,
     3430, 3558, 3664, 3792, 3872, 4160, 4240, 6112, 6160, 6470, 6608, 6784,
     6800, 6992, 7088, 7232, 7248, 42528, 43216, 43264, 43472, 43504, 43600,
     44016, 65296, 66720, 68912, 69734, 69872, 69942, 70096, 70384, 70736,
     70864, 71248, 71360, 71472, 71904, 72016, 72784, 73040, 73120, 92768,
     92864, 93008, 120782, 120792, 120802, 120812, 120822, 123200, 123632,
     125264, 130032}

\* c is a decimal digit, and its value
IsDigit(c) ==
    IF c < 128 THEN c \in 48..57 ELSE \E z \in DecimalZeros : c - z \in 0..9

DigitValue(c) ==
    IF c < 128 THEN c - 48 ELSE c - (CHOOSE z \in DecimalZeros : c - z \in 0..9)

\* s without the leading and trailing characters that are in space
StripOf(s, space) ==
    IF \A k \in 1..Len(s) : s[k] \in space THEN <<>>
    ELSE SubSeq(s,
                CHOOSE k \in 1..Len(s) :
                    s[k] \notin space /\ \A j \in 1..(k - 1) : s[j] \in space,
                CHOOSE k \in 1..Len(s) :
                    s[k] \notin space /\ \A j \in (k + 1)..Len(s) : s[j] \in space)

\* str.strip()
Strip(s) == StripOf(s, Whitespace)

\* where the occurrences of sep that str.split cuts at begin, from position
\* from on: the leftmost one, then the leftmost one after it, and so on
RECURSIVE Cuts(_, _, _)
Cuts(s, sep, from) ==
    LET n == Len(sep)
    IN IF \A k \in from..(Len(s) - n + 1) : SubSeq(s, k, k + n - 1) # sep
       THEN <<>>
       ELSE LET k == CHOOSE h \in from..(Len(s) - n + 1) :
                         /\ SubSeq(s, h, h + n - 1) = sep
                         /\ \A j \in from..(h - 1) : SubSeq(s, j, j + n - 1) # sep
            IN <<k>> \o Cuts(s, sep, k + n)

\* str.split(sep), sep not empty
Split(s, sep) ==
    LET n    == Len(sep)
        cuts == IF n = 1
                THEN SelectSeq([k \in 1..Len(s) |-> k], LAMBDA k : s[k] = sep[1])
                ELSE Cuts(s, sep, 1)
        m    == Len(cuts)
    IN [j \in 1..(m + 1) |->
           SubSeq(s, IF j = 1 THEN 1 ELSE cuts[j - 1] + n,
                     IF j > m THEN Len(s) ELSE cuts[j] - 1)]

\* str.replace(a, b) for one-character a and b
Replace(s, a, b) == [k \in 1..Len(s) |-> IF s[k] = a THEN b ELSE s[k]]

\* sep.join(parts[lo..hi])
RECURSIVE JoinRange(_, _, _, _)
JoinRange(parts, sep, lo, hi) ==
    IF lo > hi THEN <<>>
    ELSE IF lo = hi THEN parts[lo]
    ELSE LET mid == (lo + hi) \div 2
         IN JoinRange(parts, sep, lo, mid) \o sep
            \o JoinRange(parts, sep, mid + 1, hi)

Join(parts, sep) == JoinRange(parts, sep, 1, Len(parts))

\* an int() literal without its sign
Unsigned(s) ==
    IF s # <<>> /\ s[1] \in {ord("+"), ord("-")} THEN Tail(s) ELSE s

\* int(s) does not raise ValueError: whitespace, a sign, then digits with
\* single underscores between them, at most 4300 digits in all
IsIntLiteral(s) ==
    LET body == Unsigned(StripOf(s, IntSpace))
        n    == Len(body)
    IN /\ n > 0
       /\ \A k \in 1..n :
             \/ IsDigit(body[k])
             \/ /\ body[k] = ord("_")
                /\ 1 < k /\ k < n
                /\ IsDigit(body[k - 1]) /\ IsDigit(body[k + 1])
       /\ Cardinality({k \in 1..n : IsDigit(body[k])}) <= 4300

\* int(s), for s with IsIntLiteral(s)
IntValue(s) ==
    LET signed(t, mag) == [neg |-> t[1] = ord("-") /\ mag # <<>>, mag |-> mag]
        valued(t, digits) ==
            LET n        == Len(digits)
                digit(p) == IF p >= 1 THEN DigitValue(digits[p]) ELSE 0
            IN signed(t, Trim([k \in 1..((n + 3) \div 4) |->
                                  1000 * digit(n - 4 * k + 1)
                                  + 100 * digit(n - 4 * k + 2)
                                  + 10 * digit(n - 4 * k + 3)
                                  + digit(n - 4 * k + 4)]))
        stripped(t) == valued(t, SelectSeq(t, IsDigit))
    IN stripped(StripOf(s, IntSpace))

\* str(n) for a TLC integer 0 <= n < 10000
RECURSIVE NatDigits(_)
NatDigits(n) ==
    IF n < 10 THEN <<48 + n>>
    ELSE Append(NatDigits(n \div 10), 48 + (n % 10))

\* the decimal digits of a natural in base 10^4
Digits(mag) ==
    IF mag = <<>> THEN <<48>>
    ELSE LET n   == Len(mag)
             top == NatDigits(mag[n])
         IN top \o [p \in 1..(4 * (n - 1)) |->
                       48 + ((mag[n - 1 - ((p - 1) \div 4)]
                                 \div (10 ^ (3 - ((p - 1) % 4)))) % 10)]

\* f"{x}"
IntStr(x) == IF x.neg THEN <<ord("-")>> \o Digits(x.mag) ELSE Digits(x.mag)

ZeroPad(digits, width) ==
    [k \in 1..Max(0, width - Len(digits)) |-> 48] \o digits

\* f"{x:0{width}d}": zero-padded to width characters, the sign counted
FormatInt(x, width) ==
    IF x.neg THEN <<ord("-")>> \o ZeroPad(Digits(x.mag), width - 1)
    ELSE ZeroPad(Digits(x.mag), width)

\* f"{x:.1f}" for a float x: the tenths nearest to x, ties to the even one
FormatTenths(x) ==
    LET string(digits) ==
            (IF x.neg THEN <<ord("-")>> ELSE <<>>)
            \o SubSeq(digits, 1, Len(digits) - 1) \o <<ord(".")>>
            \o <<digits[Len(digits)]>>
        rounded(tenths) == string(ZeroPad(Digits(Decimal(tenths)), 2))
        nearest(num, floor_) ==
            rounded(IF /\ x.exp < 0
                       /\ Bit(num, 0 - x.exp - 1) = 1
                       /\ LowBits(num, 0 - x.exp - 1) \/ Bit(floor_, 0) = 1
                    THEN NatAdd(floor_, <<1>>, 32768) ELSE floor_)
        scaled(num) ==
            nearest(num, IF x.exp >= 0 THEN ShiftLeft(num, x.exp)
                         ELSE ShiftRight(num, 0 - x.exp))
    IN scaled(NatTimes(x.man, 10, 32768))

\* part in s
Contains(s, part) ==
    \E k \in 1..(Len(s) - Len(part) + 1) : SubSeq(s, k, k + Len(part) - 1) = part

\* bytes.decode('utf-8'): the str, or UnicodeDecodeError
decode(b) ==
    LET n       == Len(b)
        more(k) == k <= n /\ b[k] \in 128..191
        size(k) == IF b[k] < 128 THEN 1
                   ELSE IF b[k] \in 194..223 THEN 2
                   ELSE IF b[k] \in 224..239 THEN 3
                   ELSE IF b[k] \in 240..244 THEN 4
                   ELSE 0
        second(k) == CASE b[k] = 224 -> 160..191
                       [] b[k] = 237 -> 128..159
                       [] b[k] = 240 -> 144..191
                       [] b[k] = 244 -> 128..143
                       [] OTHER -> 128..191
        valid(k) == /\ size(k) > 0
                    /\ \A j \in 1..(size(k) - 1) : more(k + j)
                    /\ size(k) > 1 => b[k + 1] \in second(k)
                    /\ ~more(k + size(k))
        point(k) == CASE size(k) = 1 -> b[k]
                      [] size(k) = 2 -> (b[k] - 192) * 64 + (b[k + 1] - 128)
                      [] size(k) = 3 -> (b[k] - 224) * 4096 + (b[k + 1] - 128) * 64
                                        + (b[k + 2] - 128)
                      [] size(k) = 4 -> (b[k] - 240) * 262144
                                        + (b[k + 1] - 128) * 4096
                                        + (b[k + 2] - 128) * 64 + (b[k + 3] - 128)
        leads == SelectSeq([k \in 1..n |-> k], LAMBDA k : ~more(k))
    IN IF more(1) \/ \E j \in 1..Len(leads) : ~valid(leads[j])
       THEN UnicodeDecodeError
       ELSE [value |-> [j \in 1..Len(leads) |-> point(leads[j])]]

----------------------------------------------------------------------------
(* datetime.timedelta: [ms], a whole number of milliseconds as an int;     *)
(* every timedelta the program builds is one                               *)

\* the timedelta of ms milliseconds, or the OverflowError of a value with
\* more than 999999999 days: below timedelta.min, -999999999 days, or from
\* 1000000000 days on
from_ms(ms) ==
    LET min == IntNeg(IntTimes(IntTimes(IntOf(999999999), 86400), 1000))
        end == IntTimes(IntTimes(IntOf(1000000000), 86400), 1000)
    IN IF IntLess(ms, min) \/ ~IntLess(ms, end) THEN OverflowError
       ELSE [ms |-> ms]

\* timedelta(hours=h, minutes=m, seconds=s, milliseconds=ms)
timedelta(h, m, s, ms) ==
    from_ms(IntAdd(IntTimes(IntAdd(IntTimes(IntAdd(IntTimes(h, 60), m), 60), s),
                            1000), ms))

\* a + b and a - b; None is no operand
TdAdd(a, b) ==
    IF a = None \/ b = None THEN TypeError ELSE from_ms(IntAdd(a.ms, b.ms))

TdSub(a, b) ==
    IF a = None \/ b = None THEN TypeError ELSE from_ms(IntSub(a.ms, b.ms))

\* td.total_seconds(): microseconds / 10**6, one true division of ints
total_seconds(t) == RoundRatio(t.ms.neg, Binary(t.ms.mag), <<1000>>, 0)

----------------------------------------------------------------------------
(* Time codec *)

\* parse_time: the timedelta; ValueError when the string does not unpack
\* into three ':' fields and two '.' fields, or a field is no int() literal;
\* OverflowError from the timedelta constructor
parse_time(time_str) ==
    LET fields == Split(Replace(time_str, ord(","), ord(".")), <<ord(":")>>)
    IN IF Len(fields) # 3 THEN ValueError
       ELSE LET secs == Split(fields[3], <<ord(".")>>)
            IN IF Len(secs) # 2 THEN ValueError
               ELSE IF ~(/\ IsIntLiteral(fields[1]) /\ IsIntLiteral(fields[2])
                         /\ IsIntLiteral(secs[1]) /\ IsIntLiteral(secs[2]))
               THEN ValueError
               ELSE timedelta(IntValue(fields[1]), IntValue(fields[2]),
                              IntValue(secs[1]), IntValue(secs[2]))

\* format_time: the string, or AttributeError (None has no total_seconds)
format_time(t) ==
    IF t = None THEN AttributeError
    ELSE LET ts == total_seconds(t)
         IN [value |->
                FormatInt(FloatToInt(FloatFloorDiv(ts, IntOf(3600))), 2)
                \o <<ord(":")>>
                \o FormatInt(FloatToInt(FloatFloorDiv(FloatMod(ts, IntOf(3600)),
                                                      IntOf(60))), 2)
                \o <<ord(":")>>
                \o FormatInt(FloatToInt(FloatMod(ts, IntOf(60))), 2)
                \o <<ord(",")>>
                \o FormatInt(FloatToInt(FloatMod(FloatTimes(ts, IntOf(1000)),
                                                 IntOf(1000))), 3)]

----------------------------------------------------------------------------
(* Subtitle *)

\* Subtitle(index, start_time, end_time, text); _gap_to_next is the
\* attribute the gap_to_next setter creates
Subtitle(index, start_time, end_time, text) ==
    [index |-> index, start_time |-> start_time, end_time |-> end_time,
     text |-> text, _gap_to_next |-> None]

\* the total seconds of a timedelta, an exception passed on
Seconds(t) == IF Raised(t) THEN t ELSE total_seconds(t)

\* the duration property, or the exception of the subtraction
duration(sub) == Seconds(TdSub(sub.end_time, sub.start_time))

\* sum(len(line) for line in text[lo..hi])
RECURSIVE CountChars(_, _, _)
CountChars(text, lo, hi) ==
    IF lo > hi THEN 0
    ELSE IF lo = hi THEN Len(text[lo])
    ELSE CountChars(text, lo, (lo + hi) \div 2)
         + CountChars(text, (lo + hi) \div 2 + 1, hi)

char_count(sub) == CountChars(sub.text, 1, Len(sub.text))

\* the reading_speed property: a float, the int 0, or the exception of
\* duration, which the property reads twice
reading_speed(sub) ==
    IF Raised(duration(sub)) THEN duration(sub)
    ELSE IF Less(IntOf(0), duration(sub))
    THEN FloatOver(IntOf(char_count(sub)), duration(sub))
    ELSE IntOf(0)

\* the gap_to_next property: getattr(self, '_gap_to_next', 0)
gap_to_next(sub) ==
    IF sub._gap_to_next = None THEN IntOf(0) ELSE sub._gap_to_next

HasTimes(sub) == sub.start_time # None /\ sub.end_time # None

----------------------------------------------------------------------------
(* SRT parser and serializer *)

Arrow == Text(<<" ", "-", "-", ">", " ">>)

Newline == <<10>>

\* the time-range line of the entry being built: the entry with its times,
\* None where the except clause drops it, or the exception that clause does
\* not catch. The start is parsed and assigned before the end is looked at.
time_range_line(current_subtitle, line) ==
    LET timed(start_time, end_time) ==
            IF start_time \in {ValueError, IndexError} THEN None
            ELSE IF Raised(start_time) THEN start_time
            ELSE IF end_time \in {ValueError, IndexError} THEN None
            ELSE IF Raised(end_time) THEN end_time
            ELSE [current_subtitle EXCEPT !.start_time = start_time,
                                          !.end_time = end_time]
    IN timed(parse_time(Split(line, Arrow)[1]),
             IF Len(Split(line, Arrow)) < 2 THEN IndexError
             ELSE parse_time(Split(line, Arrow)[2]))

\* one turn of the loop, on the locals [subtitles, current_subtitle] and the
\* line stripped: the locals after it, or the exception that leaves the loop
parse_line(state, line) ==
    LET current_subtitle == state.current_subtitle
        kept(timed) ==
            IF Raised(timed) THEN timed
            ELSE [state EXCEPT !.current_subtitle = timed]
    IN IF line = <<>>
       THEN IF current_subtitle # None
            THEN [subtitles        |-> Append(state.subtitles, current_subtitle),
                  current_subtitle |-> None]
            ELSE state
       ELSE IF current_subtitle = None
       THEN IF IsIntLiteral(line)
            THEN [state EXCEPT !.current_subtitle =
                                   Subtitle(IntValue(line), None, None, <<>>)]
            ELSE state
       ELSE IF current_subtitle.start_time = None
       THEN kept(time_range_line(current_subtitle, line))
       ELSE [state EXCEPT !.current_subtitle.text = Append(@, line)]

\* the loop over lines[lo..hi]
RECURSIVE parse_lines(_, _, _, _)
parse_lines(lines, lo, hi, state) ==
    IF lo = hi THEN parse_line(state, Strip(lines[lo]))
    ELSE LET mid  == (lo + hi) \div 2
             half == parse_lines(lines, lo, mid, state)
         IN IF Raised(half) THEN half
            ELSE parse_lines(lines, mid + 1, hi, half)

\* parse_srt: the list, or the exception that leaves it
parse_srt(text) ==
    LET returned(state) ==
            IF Raised(state) THEN state
            ELSE IF state.current_subtitle # None
            THEN [value |-> Append(state.subtitles, state.current_subtitle)]
            ELSE [value |-> state.subtitles]
    IN returned(parse_lines(Split(Strip(text), Newline), 1,
                            Len(Split(Strip(text), Newline)),
                            [subtitles |-> <<>>, current_subtitle |-> None]))

\* the lines one subtitle with its times set adds to the output
subtitle_lines(subtitle) ==
    <<IntStr(subtitle.index),
      format_time(subtitle.start_time).value \o Arrow
      \o format_time(subtitle.end_time).value>>
    \o subtitle.text \o <<(<<>>)>>

\* the lines subtitles lo..hi add
RECURSIVE output_lines(_, _, _)
output_lines(subs, lo, hi) ==
    IF lo > hi THEN <<>>
    ELSE IF lo = hi THEN subtitle_lines(subs[lo])
    ELSE output_lines(subs, lo, (lo + hi) \div 2)
         \o output_lines(subs, (lo + hi) \div 2 + 1, hi)

\* write_srt: the text, or the AttributeError of format_time
write_srt(subs) ==
    IF \E k \in 1..Len(subs) : ~HasTimes(subs[k]) THEN AttributeError
    ELSE [value |-> Join(output_lines(subs, 1, Len(subs)), Newline)]

----------------------------------------------------------------------------
(* statistics.mean and statistics.stdev: exact sums, one rounding at the end *)

\* the exact sum of data[lo..hi], and of their squares
RECURSIVE Sum(_, _, _)
Sum(data, lo, hi) ==
    IF lo > hi THEN Dyadic(FALSE, <<>>, 0)
    ELSE IF lo = hi THEN Exact(data[lo])
    ELSE DyadicSum(Sum(data, lo, (lo + hi) \div 2),
                   Sum(data, (lo + hi) \div 2 + 1, hi))

RECURSIVE SumOfSquares(_, _, _)
SumOfSquares(data, lo, hi) ==
    IF lo > hi THEN Dyadic(FALSE, <<>>, 0)
    ELSE IF lo = hi THEN DyadicProduct(Exact(data[lo]), Exact(data[lo]))
    ELSE DyadicSum(SumOfSquares(data, lo, (lo + hi) \div 2),
                   SumOfSquares(data, (lo + hi) \div 2 + 1, hi))

\* total / n: an int where the data are ints and the quotient is whole, the
\* nearest float otherwise
quotient(data, total, n) ==
    IF /\ \A k \in 1..Len(data) : IsInt(data[k])
       /\ NatDivMod(ShiftLeft(total.man, total.exp), n, 32768)[2] = <<>>
    THEN IntFrom(total.neg,
                 NatDivMod(ShiftLeft(total.man, total.exp), n, 32768)[1])
    ELSE RoundRatio(total.neg, total.man, n, total.exp)

\* statistics.mean(data)
mean(data) ==
    IF Len(data) < 1 THEN StatisticsError
    ELSE quotient(data, Sum(data, 1, Len(data)), NatOf(Len(data), 32768))

\* Euclid's algorithm
RECURSIVE Euclid(_, _)
Euclid(a, b) == IF b = <<>> THEN a ELSE Euclid(b, NatDivMod(a, b, 32768)[2])

\* math.gcd(a, b) for a, b > 0: the powers of two they share, times the
\* greatest common divisor of their odd parts
gcd(a, b) ==
    LET za == TrailingZeros(a)
        zb == TrailingZeros(b)
    IN ShiftLeft(Euclid(ShiftRight(a, za), ShiftRight(b, zb)), Min(za, zb))

\* _integer_sqrt_of_frac_rto(n, m): a = isqrt(n // m); a | (a*a*m != n)
sqrt_rto(n, m) ==
    LET odd(a) ==
            IF NatMul(NatMul(a, a, 32768), m, 32768) # n /\ Bit(a, 0) = 0
            THEN NatAdd(a, <<1>>, 32768) ELSE a
    IN odd(isqrt(NatDivMod(n, m, 32768)[1]))

\* _float_sqrt_of_frac(n, m): the square root of n / m as a float. The
\* root, rounded to odd, is taken with 55 bits or more and divided by
\* 2^-q in one true division.
sqrt_of_frac(n, m) ==
    LET q == (BitLength(n) - BitLength(m) - 109) \div 2
    IN IF q >= 0
       THEN RoundRatio(FALSE, ShiftLeft(sqrt_rto(n, ShiftLeft(m, 2 * q)), q),
                       <<1>>, 0)
       ELSE RoundRatio(FALSE, sqrt_rto(ShiftLeft(n, 0 - 2 * q), m),
                       ShiftLeft(<<1>>, 0 - q), 0)

\* the square root of the fraction num / den, taken in lowest terms
sqrt_of_fraction(num, den) ==
    IF num = <<>> THEN sqrt_of_frac(<<>>, <<1>>)
    ELSE sqrt_of_frac(NatDivMod(num, gcd(num, den), 32768)[1],
                      NatDivMod(den, gcd(num, den), 32768)[1])

\* the square root of mss = ss / k, for the exact ss >= 0
sqrt_of_mss(ss, k) ==
    sqrt_of_fraction(ShiftLeft(ss.man, Max(ss.exp, 0)),
                     ShiftLeft(NatOf(k, 32768), Max(0 - ss.exp, 0)))

\* statistics.stdev(data): mss = (n * sxx - sx * sx) / (n * (n - 1)) as a
\* fraction in lowest terms, then its square root
stdev(data) ==
    IF Len(data) < 2 THEN StatisticsError
    ELSE sqrt_of_mss(DyadicSum(
                         DyadicProduct(Dyadic(FALSE, NatOf(Len(data), 32768), 0),
                                       SumOfSquares(data, 1, Len(data))),
                         FloatNeg(DyadicProduct(Sum(data, 1, Len(data)),
                                                Sum(data, 1, Len(data))))),
                     Len(data) * (Len(data) - 1))

----------------------------------------------------------------------------
(* Analysis *)

\* the least element of a set of integers
Least(S) == CHOOSE k \in S : \A j \in S : k <= j

\* the first exception in a list of results, or None
FirstRaised(results) ==
    IF \A k \in 1..Len(results) : ~Raised(results[k]) THEN None
    ELSE results[Least({k \in 1..Len(results) : Raised(results[k])})]

\* the loop that sets gap_to_next, left by the exception of the first
\* subtraction that raises: <<subtitles, that exception or None>>
set_gaps(subs) ==
    LET set(gaps, raised) ==
            <<List([i \in 1..Len(subs) |->
                       IF i < (IF raised = None THEN Len(subs)
                               ELSE Least({j \in 1..Len(gaps) : Raised(gaps[j])}))
                       THEN [subs[i] EXCEPT !._gap_to_next = gaps[i]]
                       ELSE subs[i]]),
              raised>>
        looped(gaps) == set(gaps, FirstRaised(gaps))
    IN looped(List([i \in 1..Max(0, Len(subs) - 1) |->
                       Seconds(TdSub(subs[i + 1].start_time, subs[i].end_time))]))

\* subtitles[:-1]
AllButLast(subs) == SubSeq(subs, 1, Len(subs) - 1)

\* StatisticsError becomes 0.0
Defaulted(x) == IF x = StatisticsError THEN Dyadic(FALSE, <<>>, 0) ELSE x

\* the stats dict with the statistics of a short list defaulting to 0.0
stats_defaulted(subs, values) ==
    [avg_reading_speed |-> Defaulted(values[1]),
     std_reading_speed |-> Defaulted(values[2]),
     avg_gap           |-> Defaulted(values[3]),
     std_gap           |-> Defaulted(values[4]),
     avg_duration      |-> Defaulted(values[5]),
     std_duration      |-> Defaulted(values[6]),
     total_subtitles   |-> Len(subs)]

\* the stats dict, from the six statistics in the order the source computes
\* them: the dict, or the exception of the first that raises
stats_dict(subs, values) ==
    IF FirstRaised(values) # None THEN FirstRaised(values)
    ELSE [avg_reading_speed |-> values[1],
          std_reading_speed |-> values[2],
          avg_gap           |-> values[3],
          std_gap           |-> values[4],
          avg_duration      |-> values[5],
          std_duration      |-> values[6],
          total_subtitles   |-> Len(subs)]

\* mean and stdev of the reading speeds, of the gaps and of the durations
six_statistics(lists) ==
    List([k \in 1..6 |-> IF k % 2 = 1 THEN mean(lists[(k + 1) \div 2])
                         ELSE stdev(lists[k \div 2])])

\* the gaps and the durations listed after the reading speeds, then the
\* stats dict; an exception of a property leaves the first list
listed(subs, reading_speeds) ==
    IF FirstRaised(reading_speeds) # None THEN FirstRaised(reading_speeds)
    ELSE stats_dict(subs,
                    six_statistics(
                        <<reading_speeds,
                          List([k \in 1..Len(AllButLast(subs)) |->
                                   gap_to_next(subs[k])]),
                          List([k \in 1..Len(subs) |-> duration(subs[k])])>>))

\* lines 114-126: the three lists and the stats dict, or the first exception
statistics(subs) ==
    listed(subs, List([k \in 1..Len(subs) |-> reading_speed(subs[k])]))

\* [(i, x) for i, x in enumerate(list) if keep[i]], keep given from 1
Enumerated(list, keep) ==
    LET hits == SelectSeq([k \in 1..Len(list) |-> k], LAMBDA k : keep[k])
    IN List([j \in 1..Len(hits) |-> <<hits[j] - 1, list[hits[j]]>>])

is_overlap(sub) == Less(gap_to_next(sub), IntOf(0))

overlaps(subs) ==
    Enumerated(AllButLast(subs),
               [k \in 1..Len(AllButLast(subs)) |-> is_overlap(subs[k])])

large_gaps(subs, stats) ==
    Enumerated(AllButLast(subs),
               [k \in 1..Len(AllButLast(subs)) |->
                   Less(FloatAdd(stats.avg_gap,
                                 FloatTimes(IntOf(2), stats.std_gap)),
                        gap_to_next(subs[k]))])

fast_subs(subs, stats) ==
    Enumerated(subs,
               [k \in 1..Len(subs) |->
                   Less(FloatAdd(stats.avg_reading_speed,
                                 FloatTimes(IntOf(2), stats.std_reading_speed)),
                        reading_speed(subs[k]))])

\* f"Found {len(list)} {what}" where the list is not empty
found(list, what) ==
    IF list # <<>>
    THEN <<Text(<<"F", "o", "u", "n", "d", " ">>) \o IntStr(IntOf(Len(list)))
           \o <<ord(" ")>> \o what>>
    ELSE <<>>

VeryEarly ==
    Text(<<"F", "i", "r", "s", "t", " ", "s", "u", "b", "t", "i", "t", "l",
           "e", " ", "a", "p", "p", "e", "a", "r", "s", " ", "v", "e", "r",
           "y", " ", "e", "a", "r", "l", "y">>)

Late ==
    Text(<<"F", "i", "r", "s", "t", " ", "s", "u", "b", "t", "i", "t", "l",
           "e", " ", "a", "p", "p", "e", "a", "r", "s", " ", "l", "a", "t",
           "e">>)

\* f"{what} ({first_sub_time:.1f}s)"
first_subtitle_issue(what, first_sub_time) ==
    what \o Text(<<" ", "(">>) \o FormatTenths(first_sub_time)
    \o Text(<<"s", ")">>)

\* the dict analyze_subtitles returns: the issues list, from the three lists
\* and the start of the first subtitle, and the lists
report(stats, overlapping, large, fast, first_sub_time) ==
    [statistics |-> stats,
     issues |->
        found(overlapping,
              Text(<<"o", "v", "e", "r", "l", "a", "p", "p", "i", "n", "g", " ",
                     "s", "u", "b", "t", "i", "t", "l", "e", "s">>))
        \o found(large,
                 Text(<<"u", "n", "u", "s", "u", "a", "l", "l", "y", " ", "l",
                        "a", "r", "g", "e", " ", "g", "a", "p", "s">>))
        \o found(fast,
                 Text(<<"s", "u", "b", "t", "i", "t", "l", "e", "s", " ", "w",
                        "i", "t", "h", " ", "v", "e", "r", "y", " ", "h", "i",
                        "g", "h", " ", "r", "e", "a", "d", "i", "n", "g", " ",
                        "s", "p", "e", "e", "d", "s">>))
        \o (IF Less(first_sub_time, Dyadic(FALSE, <<1>>, -1))
            THEN <<first_subtitle_issue(VeryEarly, first_sub_time)>>
            ELSE IF Less(IntOf(10), first_sub_time)
            THEN <<first_subtitle_issue(Late, first_sub_time)>>
            ELSE <<>>),
     overlaps   |-> overlapping,
     large_gaps |-> large,
     fast_subs  |-> fast]

\* lines 128-160, after the stats dict: the dict returned, or the exception
\* that left line 114-126
after_statistics(subs, stats) ==
    IF Raised(stats) THEN stats
    ELSE report(stats, overlaps(subs), large_gaps(subs, stats),
                fast_subs(subs, stats), total_seconds(subs[1].start_time))

\* lines 114-160, after the gap loop
after_gaps(gapped) ==
    IF gapped[2] # None THEN gapped
    ELSE <<gapped[1], after_statistics(gapped[1], statistics(gapped[1]))>>

\* analyze_subtitles: <<subtitles as mutated, the dict or the exception>>
analyze_subtitles(subs) == after_gaps(set_gaps(subs))

----------------------------------------------------------------------------
(* Fixes *)

\* min(xs)
Minimum(xs) ==
    xs[CHOOSE k \in 1..Len(xs) : \A j \in 1..Len(xs) : ~Less(xs[j], xs[k])]

\* int(-max_overlap * 1100)
overlap_fix(max_overlap) ==
    FloatToInt(FloatTimes(FloatNeg(max_overlap), IntOf(1100)))

\* the fix an issue string asks for
issue_fix(issue) ==
    IF Contains(issue, VeryEarly)
    THEN <<<<"delay_start", IntOf(1000)>>>>
    ELSE IF Contains(issue, Late)
    THEN <<<<"advance_start", IntOf(-2000)>>>>
    ELSE <<>>

RECURSIVE issue_fixes(_, _, _)
issue_fixes(list, lo, hi) ==
    IF lo > hi THEN <<>>
    ELSE IF lo = hi THEN issue_fix(list[lo])
    ELSE issue_fixes(list, lo, (lo + hi) \div 2)
         \o issue_fixes(list, (lo + hi) \div 2 + 1, hi)

suggest_fixes(a) ==
    (IF a.overlaps # <<>>
     THEN <<<<"fix_overlaps",
              overlap_fix(Minimum([k \in 1..Len(a.overlaps) |->
                                      gap_to_next(a.overlaps[k][2])]))>>>>
     ELSE <<>>)
    \o issue_fixes(a.issues, 1, Len(a.issues))

\* shift without the end_time line
shift_start_only(subtitle, offset) ==
    LET start_time == TdAdd(subtitle.start_time, offset)
    IN IF Raised(start_time) THEN <<subtitle, start_time>>
       ELSE <<[subtitle EXCEPT !.start_time = start_time], None>>

\* one subtitle of adjust_subtitles: <<the subtitle as the two += leave it,
\* the exception of the first that raises or None>>
shift(subtitle, offset) ==
    LET moved(start_time, end_time) ==
            IF Raised(start_time) THEN <<subtitle, start_time>>
            ELSE IF Raised(end_time)
            THEN <<[subtitle EXCEPT !.start_time = start_time], end_time>>
            ELSE <<[subtitle EXCEPT !.start_time = start_time,
                                    !.end_time = end_time], None>>
    IN moved(TdAdd(subtitle.start_time, offset), TdAdd(subtitle.end_time, offset))

\* adjust_subtitles: <<subtitles as mutated, the exception or None>>
adjust_subtitles(subs, offset_ms) ==
    LET moved(shifted, raised) ==
            <<List([k \in 1..Len(subs) |->
                       IF k <= (IF raised = None THEN Len(subs)
                                ELSE Least({j \in 1..Len(subs) :
                                               shifted[j][2] # None}))
                       THEN shifted[k][1] ELSE subs[k]]),
              raised>>
        each(shifted) ==
            moved(shifted, FirstRaised([k \in 1..Len(subs) |-> shifted[k][2]]))
        looped(offset) ==
            IF Raised(offset) THEN <<subs, offset>>
            ELSE each(List([k \in 1..Len(subs) |-> shift(subs[k], offset)]))
    IN looped(from_ms(offset_ms))

\* the loop over fixes[k..], on <<subtitles, exception or None>>
RECURSIVE apply_each(_, _, _)
apply_each(state, fixes, k) ==
    IF k > Len(fixes) \/ state[2] # None THEN state
    ELSE apply_each(adjust_subtitles(state[1], fixes[k][2]), fixes, k + 1)

\* apply_fixes: <<subtitles as mutated, the exception or None>>
apply_fixes(subs, a) == apply_each(<<subs, None>>, suggest_fixes(a), 1)

----------------------------------------------------------------------------
(* Flask: the request and the responses *)

DotSrt == Text(<<".", "s", "r", "t">>)

\* str.endswith
EndsWith(s, suffix) ==
    Len(s) >= Len(suffix) /\ SubSeq(s, Len(s) - Len(suffix) + 1, Len(s)) = suffix

\* the greatest position of character c in s, or 0
LastOf(s, c) ==
    IF \A k \in 1..Len(s) : s[k] # c THEN 0
    ELSE CHOOSE k \in 1..Len(s) : s[k] = c /\ \A j \in (k + 1)..Len(s) : s[j] # c

\* os.path.splitext(path)[0]: the path up to its last dot, where that dot
\* follows the last slash and a character of the file name that is no dot
splitext_root(path) ==
    LET dot == LastOf(path, ord("."))
        sep == LastOf(path, ord("/"))
    IN IF dot > sep /\ \E k \in (sep + 1)..(dot - 1) : path[k] # ord(".")
       THEN SubSeq(path, 1, dot - 1)
       ELSE path

\* the headers after_request adds to every response
after_request(resp) ==
    [resp EXCEPT !.headers =
        @ @@ ("Access-Control-Allow-Origin" :> "*")
          @@ ("Access-Control-Allow-Headers" :> "Content-Type")
          @@ ("Access-Control-Allow-Methods" :> "GET, POST, OPTIONS")]

\* (jsonify(dict), status) as Flask sends it
jsonify(dict, status) ==
    after_request([status  |-> status,
                   json    |-> dict,
                   headers |-> ("Content-Type" :> "application/json")])

\* the response of the except clauses: str(e) is kept as the class of e
failure(e) == jsonify([error |-> e.raised], 500)

\* the three early returns: the response, or None where the file is read
rejection(files) ==
    IF files = None
    THEN jsonify([error |-> "No file provided"], 400)
    ELSE IF files.filename = <<>>
    THEN jsonify([error |-> "No file selected"], 400)
    ELSE IF ~EndsWith(files.filename, DotSrt)
    THEN jsonify([error |->
                    "Invalid file format. Only .srt files are supported"], 400)
    ELSE None

\* the download fix_srt builds
download(filename, fixed_content, a) ==
    after_request(
        [status  |-> 200,
         body    |-> fixed_content,
         headers |->
            ("Content-Type" :> "application/x-subrip")
            @@ ("Content-Disposition" :>
                   Text(<<"a", "t", "t", "a", "c", "h", "m", "e", "n", "t", ";",
                          " ", "f", "i", "l", "e", "n", "a", "m", "e", "=">>)
                   \o splitext_root(filename)
                   \o Text(<<"_", "f", "i", "x", "e", "d", ".", "s", "r", "t">>))
            @@ ("X-Analysis-Total-Subtitles" :>
                   IntStr(IntOf(a.statistics.total_subtitles)))
            @@ ("X-Analysis-Issues" :> IntStr(IntOf(Len(a.issues))))])

----------------------------------------------------------------------------
(* Inputs *)

TwoDigits(n) == <<48 + (n \div 10), 48 + (n % 10)>>

ThreeDigits(n) == <<48 + (n \div 100)>> \o TwoDigits(n % 100)

\* the timestamp text HH:MM:SS,mmm
Clock(h, m, s, ms) ==
    TwoDigits(h) \o <<ord(":")>> \o TwoDigits(m) \o <<ord(":")>> \o TwoDigits(s)
    \o <<ord(",")>> \o ThreeDigits(ms)

\* the timestamp text of a time of day given in milliseconds
ClockOf(t) ==
    Clock(t \div 3600000, (t \div 60000) % 60, (t \div 1000) % 60, t % 1000)

\* an SRT block: index line, time-range line, text lines
Cue(index, from, to, text) ==
    <<index, ClockOf(from) \o Arrow \o ClockOf(to)>> \o text

\* the file whose blocks are the given lists of lines, a blank line between
RECURSIVE FileLines(_)
FileLines(blocks) ==
    IF blocks = <<>> THEN <<>>
    ELSE IF Len(blocks) = 1 THEN blocks[1]
    ELSE blocks[1] \o <<(<<>>)>> \o FileLines(Tail(blocks))

File(blocks) == Join(FileLines(blocks), Newline)

Files(vocabulary, most) ==
    UNION {{File(bs) : bs \in [1..n -> vocabulary]} : n \in 0..most}

Hi == Text(<<"H", "i">>)

Bye == Text(<<"B", "y", "e">>)

Ok == Text(<<"O", "k">>)

Hello == Text(<<"H", "e", "l", "l", "o">>)

MaxCues == 3

\* the blocks of the uploaded files
CueBlocks ==
    {Cue(Text(<<"1">>), 1000, 3000, <<Hi>>),
     Cue(Text(<<"2">>), 3500, 5000, <<Bye>>),
     Cue(Text(<<"3">>), 200, 1000, <<Text(<<"Y", "o">>)>>),
     Cue(Text(<<"4">>), 15000, 100, <<Text(<<"E", "h">>), Text(<<"?">>)>>),
     Cue(Text(<<"5">>), 4500, 5190, <<Ok>>),
     <<Text(<<"7">>)>>}

\* seven cues of two seconds, three seconds apart but for the last, which
\* comes 47.5 s after the sixth and shows forty characters
SevenCues ==
    File([i \in 1..7 |->
             IF i < 7 THEN Cue(<<48 + i>>, 3000 * (i - 1), 3000 * (i - 1) + 2000,
                               <<Hello>>)
             ELSE Cue(<<48 + i>>, 64500, 66500, <<[k \in 1..40 |-> 97]>>)])

\* an hours field beyond what a timedelta holds
HugeClock ==
    Text(<<"2", "4", "0", "0", "0", "0", "0", "0", "0", "0", "0", ":", "0", "0",
           ":", "0", "0", ",", "0", "0", "0">>)

\* timedelta.max, to the millisecond
LastClock ==
    Text(<<"2", "3", "9", "9", "9", "9", "9", "9", "9", "9", "9", ":", "5", "9",
           ":", "5", "9", ",", "9", "9", "9">>)

HugeCue == <<Text(<<"6">>), HugeClock \o Arrow \o ClockOf(1000), Text(<<"x">>)>>

\* timedelta.min
FirstClock ==
    Text(<<"-", "2", "3", "9", "9", "9", "9", "9", "9", "9", "7", "6", ":", "0",
           "0", ":", "0", "0", ",", "0", "0", "0">>)

\* a cue whose index line ends in a vertical tab and holds an Arabic-Indic
\* three
ExoticCue == <<<<1635, 11>>, ClockOf(1000) \o Arrow \o ClockOf(3000), Hi>>

\* the uploads outside the vocabulary: files in ASCII but for the last two,
\* which are the UTF-8 of U+0663 VT / time range / Hi / U+00A0 / cue 2 /
\* blank / cue 5, and two bytes that are no UTF-8
OtherBodies ==
    {SevenCues,
     File(<<<<Text(<<"1">>), FirstClock \o Arrow \o LastClock, Hi>>>>),
     File(<<HugeCue, Cue(Text(<<"1">>), 1000, 3000, <<Hi>>)>>),
     File(<<Cue(Text(<<"1">>), 0, 1000, <<Hi>>),
            Cue(Text(<<"2">>), 2000, 3000, <<Bye>>),
            <<Text(<<"3">>), ClockOf(4000) \o Arrow \o LastClock, Ok>>>>),
     <<217, 163, 11, 10>> \o ClockOf(1000) \o Arrow \o ClockOf(3000)
        \o <<10>> \o Hi \o <<10, 194, 160, 10>>
        \o File(<<Cue(Text(<<"2">>), 3500, 5000, <<Bye>>),
                  Cue(Text(<<"5">>), 4500, 5190, <<Ok>>)>>),
     <<255, 254>>}

\* request.files['file'], or None where request.files has no 'file'
Uploads ==
    {None,
     [filename |-> <<>>, body |-> <<>>],
     [filename |-> Text(<<"a", ".", "t", "x", "t">>), body |-> <<>>],
     [filename |-> DotSrt, body |-> SevenCues]}
    \cup {[filename |-> Text(<<"m", "y", ".", "s", "u", "b", ".", "s", "r", "t">>),
           body     |-> b] : b \in Files(CueBlocks, MaxCues) \cup OtherBodies}

Endpoints == {"analyze", "fix"}

MaxBlocks == 3

BadArrow == Text(<<" ", "-", ">", " ">>)

\* the blocks of the texts given to the parser
ParseBlocks ==
    {Cue(Text(<<"1">>), 1000, 3000, <<Hi>>),
     Cue(Text(<<"2">>), 1001, 2500, <<>>),
     <<Text(<<" ", "9">>),
       Text(<<"0", "0", ":", "0", "0", ":", "0", "4", ".", "0", "0", "0">>)
         \o Arrow
         \o Text(<<"0", "0", ":", "0", "1", ":", "0", "3", ",", "5", " ">>),
       <<9>> \o Text(<<"H", "i", " ", "y", "o", "u">>)>>,
     <<Text(<<"3">>), ClockOf(5000) \o BadArrow \o ClockOf(6000),
       Text(<<"O", "o", "p", "s">>)>>,
     <<Text(<<"4">>), ClockOf(5000) \o Arrow \o Text(<<"0", "0", ":", "0", "x">>),
       Text(<<"5">>), ClockOf(7000) \o Arrow \o ClockOf(8000), Hi>>,
     <<Text(<<"7">>)>>,
     <<Text(<<"H", "e", "y">>)>>}

\* texts outside the vocabulary
OtherTexts ==
    {File(<<HugeCue, Cue(Text(<<"1">>), 1000, 3000, <<Hi>>)>>),
     File(<<Cue(Text(<<"1">>), 1000, 3000, <<Hi>>), HugeCue>>),
     File(<<ExoticCue, <<<<160>>>>, Cue(Text(<<"2">>), 3500, 5000, <<Bye>>)>>),
     File(<<ExoticCue>>) \o <<10, 160, 10>>
        \o File(<<Cue(Text(<<"2">>), 3500, 5000, <<Bye>>)>>)}

MaxHours == 1

Minutes == {0, 59}

MaxSeconds == 4

Millis == {0, 1, 3, 500, 999}

WellFormedStamps ==
    {Clock(h, m, s, ms) :
        h \in 0..MaxHours, m \in Minutes, s \in 0..MaxSeconds, ms \in Millis}

OtherStamps ==
    {Text(<<"0", "0", ":", "0", "1">>),
     Text(<<"0", "0", ":", "0", "0", ":", "0", "1">>),
     Text(<<"0", "0", ":", "0", "0", ":", "x", ",", "0", "0", "0">>),
     Text(<<"-", "1", ":", "0", "0", ":", "0", "0", ",", "0", "0", "0">>),
     Text(<<"1", "_", "0", ":", "+", "2", ":", " ", "3", ",", "4", "0">>),
     <<160, 1635>> \o Text(<<":", "0", ":", "0", ".", "1">>) \o <<11>>,
     <<28>> \o Text(<<"1", ":", "0", ":", "0", ",", "0">>),
     HugeClock,
     LastClock,
     FirstClock,
     Text(<<"0", "0", ":", "0", "0", ":", "0", "0", ",", "9", "9", "9", "9", "9",
            "9", "9", "9", "9", "9", "9", "9", "9", "9", "9", "9", "9">>)}

----------------------------------------------------------------------------
(* /api/analyze and /api/fix *)

\* the (i, sub) tuples of a list of the analysis: each sub is the object at
\* position i of the subtitles list, and changes with it
aliased(list, subs) ==
    [k \in 1..Len(list) |-> <<list[k][1], subs[list[k][1] + 1]>>]

Init ==
    /\ pc = "received"
    /\ upload \in Uploads
    /\ endpoint \in Endpoints
    /\ content = None
    /\ subtitles = None
    /\ analysis = None
    /\ before = None
    /\ response = None
    /\ written = None
    /\ reparsed = None
    /\ stamp = None
    /\ td = None
    /\ formatted = None

\* lines 188-196 and 215-223: the three early returns
Reject ==
    /\ pc = "received"
    /\ rejection(upload) # None
    /\ response' = rejection(upload)
    /\ pc' = "done"
    /\ UNCHANGED <<upload, endpoint, content, subtitles, analysis, before,
                   written, reparsed, stamp, td, formatted>>

\* lines 199-200 and 226-227, with the except clause of lines 210-211 and
\* 253-254
Parse ==
    /\ pc = "received"
    /\ rejection(upload) = None
    /\ \E text \in {decode(upload.body)} :
          IF Raised(text)
          THEN /\ response' = failure(text)
               /\ pc' = "done"
               /\ UNCHANGED <<content, subtitles>>
          ELSE /\ content' = text.value
               /\ \E list \in {parse_srt(text.value)} :
                     IF Raised(list)
                     THEN /\ response' = failure(list)
                          /\ pc' = "done"
                          /\ UNCHANGED subtitles
                     ELSE /\ subtitles' = list.value
                          /\ pc' = "parsed"
                          /\ UNCHANGED response
    /\ UNCHANGED <<upload, endpoint, analysis, before, written, reparsed,
                   stamp, td, formatted>>

\* lines 201-202 and 228-229
NoSubtitles ==
    /\ pc = "parsed"
    /\ subtitles = <<>>
    /\ response' = jsonify([error |-> "No valid subtitles found in file"], 400)
    /\ pc' = "done"
    /\ UNCHANGED <<upload, endpoint, content, subtitles, analysis, before,
                   written, reparsed, stamp, td, formatted>>

\* lines 204 and 231, with the except clause
Analyze ==
    /\ pc = "parsed"
    /\ subtitles # <<>>
    /\ \E result \in {analyze_subtitles(subtitles)} :
          /\ subtitles' = result[1]
          /\ IF Raised(result[2])
             THEN /\ response' = failure(result[2])
                  /\ pc' = "done"
                  /\ UNCHANGED analysis
             ELSE /\ analysis' = result[2]
                  /\ pc' = "analyzed"
                  /\ UNCHANGED response
    /\ UNCHANGED <<upload, endpoint, content, before, written, reparsed,
                   stamp, td, formatted>>

\* lines 205-208
Report ==
    /\ pc = "analyzed"
    /\ endpoint = "analyze"
    /\ response' = jsonify([statistics |-> analysis.statistics,
                            issues     |-> analysis.issues], 200)
    /\ pc' = "done"
    /\ UNCHANGED <<upload, endpoint, content, subtitles, analysis, before,
                   written, reparsed, stamp, td, formatted>>

\* line 232, with the except clause; before keeps the list as it was handed
\* over. adjust_subtitles assigns to the Subtitle objects the tuples of the
\* analysis hold
ApplyFixes ==
    /\ pc = "analyzed"
    /\ endpoint = "fix"
    /\ before' = subtitles
    /\ \E result \in {apply_fixes(subtitles, analysis)} :
          /\ subtitles' = result[1]
          /\ analysis' = [analysis EXCEPT
                             !.overlaps   = aliased(@, result[1]),
                             !.large_gaps = aliased(@, result[1]),
                             !.fast_subs  = aliased(@, result[1])]
          /\ IF Raised(result[2])
             THEN /\ response' = failure(result[2])
                  /\ pc' = "done"
             ELSE /\ pc' = "fixed"
                  /\ UNCHANGED response
    /\ UNCHANGED <<upload, endpoint, content, written, reparsed, stamp, td,
                   formatted>>

\* lines 233-251, with the except clause
Download ==
    /\ pc = "fixed"
    /\ \E fixed_content \in {write_srt(subtitles)} :
          IF Raised(fixed_content)
          THEN /\ response' = failure(fixed_content)
               /\ UNCHANGED written
          ELSE /\ written' = fixed_content.value
               /\ response' = download(upload.filename, fixed_content.value,
                                       analysis)
    /\ pc' = "done"
    /\ UNCHANGED <<upload, endpoint, content, subtitles, analysis, before,
                   reparsed, stamp, td, formatted>>

Next ==
    \/ Reject
    \/ Parse
    \/ NoSubtitles
    \/ Analyze
    \/ Report
    \/ ApplyFixes
    \/ Download

Spec == Init /\ [][Next]_vars

----------------------------------------------------------------------------
(* parse_srt, write_srt and parse_srt again, on texts of any shape *)

InitParse ==
    /\ pc = "text"
    /\ content \in Files(ParseBlocks, MaxBlocks) \cup OtherTexts
    /\ upload = None
    /\ endpoint = None
    /\ subtitles = None
    /\ analysis = None
    /\ before = None
    /\ response = None
    /\ written = None
    /\ reparsed = None
    /\ stamp = None
    /\ td = None
    /\ formatted = None

\* subtitles is the list, or at "parse raised" the exception
ParseSrt ==
    /\ pc = "text"
    /\ \E list \in {parse_srt(content)} :
          IF Raised(list)
          THEN subtitles' = list /\ pc' = "parse raised"
          ELSE subtitles' = list.value /\ pc' = "parsed"
    /\ UNCHANGED <<upload, endpoint, content, analysis, before, response,
                   written, reparsed, stamp, td, formatted>>

\* written is the text, or at "write raised" the exception
WriteSrt ==
    /\ pc = "parsed"
    /\ \E text \in {write_srt(subtitles)} :
          IF Raised(text)
          THEN written' = text /\ pc' = "write raised"
          ELSE written' = text.value /\ pc' = "written"
    /\ UNCHANGED <<upload, endpoint, content, subtitles, analysis, before,
                   response, reparsed, stamp, td, formatted>>

\* reparsed is the list, or at "reparse raised" the exception
ParseAgain ==
    /\ pc = "written"
    /\ \E list \in {parse_srt(written)} :
          IF Raised(list)
          THEN reparsed' = list /\ pc' = "reparse raised"
          ELSE reparsed' = list.value /\ pc' = "reparsed"
    /\ UNCHANGED <<upload, endpoint, content, subtitles, analysis, before,
                   response, written, stamp, td, formatted>>

NextParse ==
    \/ ParseSrt
    \/ WriteSrt
    \/ ParseAgain

SpecParse == InitParse /\ [][NextParse]_vars

----------------------------------------------------------------------------
(* parse_time and format_time, on timestamp strings *)

InitCodec ==
    /\ pc = "stamp"
    /\ stamp \in WellFormedStamps \cup OtherStamps
    /\ upload = None
    /\ endpoint = None
    /\ content = None
    /\ subtitles = None
    /\ analysis = None
    /\ before = None
    /\ response = None
    /\ written = None
    /\ reparsed = None
    /\ td = None
    /\ formatted = None

\* td is the timedelta, or at "parse raised" the exception
ParseTime ==
    /\ pc = "stamp"
    /\ td' = parse_time(stamp)
    /\ pc' = IF Raised(td') THEN "parse raised" ELSE "parsed"
    /\ UNCHANGED <<upload, endpoint, content, subtitles, analysis, before,
                   response, written, reparsed, stamp, formatted>>

FormatTime ==
    /\ pc = "parsed"
    /\ formatted' = format_time(td).value
    /\ pc' = "formatted"
    /\ UNCHANGED <<upload, endpoint, content, subtitles, analysis, before,
                   response, written, reparsed, stamp, td>>

NextCodec ==
    \/ ParseTime
    \/ FormatTime

SpecCodec == InitCodec /\ [][NextCodec]_vars

----------------------------------------------------------------------------
(* The claims *)

\* what the upload parses to: [value |-> the list], or the exception
Entries ==
    LET text == decode(upload.body)
    IN IF Raised(text) THEN text ELSE parse_srt(text.value)

\* the handler has read a file that parses to a list
Parsed ==
    /\ pc # "received"
    /\ rejection(upload) = None
    /\ ~Raised(Entries)

\* times set, not negative, and below the hundred hours HH:MM:SS,mmm holds
WellFormedEntry(sub) ==
    /\ HasTimes(sub)
    /\ \A t \in {sub.start_time, sub.end_time} :
          ~t.ms.neg /\ IntLess(t.ms, IntOf(360000000))

(* C1: format_time(parse_time(t)) = t for every well-formed timestamp
   HH:MM:SS,mmm. *)
C1_RoundTrip ==
    /\ (pc = "parse raised") => stamp \notin WellFormedStamps
    /\ (pc = "formatted" /\ stamp \in WellFormedStamps) => formatted = stamp

SameEntries(a, b) ==
    /\ Len(a) = Len(b)
    /\ \A k \in 1..Len(a) :
          /\ a[k].index = b[k].index
          /\ a[k].start_time = b[k].start_time
          /\ a[k].end_time = b[k].end_time
          /\ a[k].text = b[k].text

(* C2: when parse_srt(text) is not empty, write_srt of it succeeds and
   parse_srt of the text written yields the same entries: same length, and
   position by position the same index, start_time, end_time and text. *)
C2_ParserIdempotent ==
    /\ pc # "write raised"
    /\ pc # "reparse raised"
    /\ (pc = "reparsed" /\ subtitles # <<>>) => SameEntries(reparsed, subtitles)

(* C3: an input that parses to fewer than two entries ends in a failure and
   no report: no analysis is ever produced; with no entry the response is
   the "No valid subtitles" error (EmptyInput), with one well-formed entry
   it is the StatisticsError (InsufficientData); the response carries
   neither statistics nor issues. *)
C3_FewerThanTwoFails ==
    (Parsed /\ Len(Entries.value) < 2) =>
        /\ analysis = None
        /\ pc \in {"parsed", "done"}
        /\ pc = "done" =>
              /\ response.status # 200
              /\ "json" \in DOMAIN response
              /\ DOMAIN response.json = {"error"}
              /\ Len(Entries.value) = 0 =>
                    /\ response.status = 400
                    /\ response.json.error = "No valid subtitles found in file"
              /\ (Len(Entries.value) = 1 /\ WellFormedEntry(Entries.value[1])) =>
                    /\ response.status = 500
                    /\ response.json.error = "StatisticsError"

C3_Witness ==
    /\ pc = "done"
    /\ endpoint = "fix"
    /\ Parsed
    /\ Len(Entries.value) = 1
    /\ WellFormedEntry(Entries.value[1])
    /\ response.status = 500

TwoCueFile ==
    File(<<Cue(Text(<<"1">>), 1000, 3000, <<Hi>>),
           Cue(Text(<<"2">>), 3500, 5000, <<Bye>>)>>)

(* C4: an input that parses to exactly two well-formed entries is analysed
   and a report returned; for the file [1: 1.000 --> 3.000 Hi],
   [2: 3.500 --> 5.000 Bye] the gap of entry 1 is 0.5 s, there is no
   overlap and the issues list is empty. *)
C4_TwoEntriesSuffice ==
    (/\ pc = "done"
     /\ endpoint = "analyze"
     /\ Parsed
     /\ Len(Entries.value) = 2
     /\ \A k \in 1..2 : WellFormedEntry(Entries.value[k])) =>
        /\ response.status = 200
        /\ upload.body = TwoCueFile =>
              /\ gap_to_next(subtitles[1]) = Dyadic(FALSE, <<1>>, -1)
              /\ analysis.overlaps = <<>>
              /\ response.json.issues = <<>>

\* the worst overlap of the analysed list, in milliseconds
WorstOverlapMs(subs) ==
    LET over == [i \in 1..(Len(subs) - 1) |->
                    IntSub(subs[i].end_time.ms, subs[i + 1].start_time.ms)]
    IN over[CHOOSE i \in 1..Len(over) :
                \A j \in 1..Len(over) : ~IntLess(over[i], over[j])]

\* x / d rounded to the nearest integer, for x >= 0 and a small d > 0
Nearest(x, d) ==
    LET q == NatOver(x.mag, d, 10000)
    IN [neg |-> FALSE,
        mag |-> IF 2 * q[2] >= d THEN NatAdd(q[1], <<1>>, 10000) ELSE q[1]]

(* C5: when the analysis holds an overlap, the first suggestion is the one
   ("fix_overlaps", k), with k the worst overlap in milliseconds times 1.1
   rounded to the nearest integer. *)
C5_OverlapFixRounded ==
    (pc = "analyzed" /\ analysis.overlaps # <<>>) =>
        LET fixes == suggest_fixes(analysis)
        IN /\ fixes[1] = <<"fix_overlaps",
                           Nearest(IntTimes(WorstOverlapMs(subtitles), 11), 10)>>
           /\ \A k \in 2..Len(fixes) : fixes[k][1] # "fix_overlaps"

RECURSIVE SumOffsets(_)
SumOffsets(fixes) ==
    IF fixes = <<>> THEN IntOf(0)
    ELSE IntAdd(Head(fixes)[2], SumOffsets(Tail(fixes)))

(* C6: apply_fixes moves every start_time and every end_time by the sum of
   the offsets suggest_fixes returns and leaves the index, the text, the
   number and the order of the entries alone; a first entry at 0.200 s
   without overlaps ends at 1.200 s, one at 15.000 s at 13.000 s. *)
C6_ShiftIsAdditive ==
    pc = "fixed" =>
        LET total == SumOffsets(suggest_fixes(analysis))
        IN /\ Len(subtitles) = Len(before)
           /\ \A k \in 1..Len(before) :
                 /\ subtitles[k].start_time.ms
                       = IntAdd(before[k].start_time.ms, total)
                 /\ subtitles[k].end_time.ms
                       = IntAdd(before[k].end_time.ms, total)
                 /\ subtitles[k].index = before[k].index
                 /\ subtitles[k].text = before[k].text
           /\ (before[1].start_time.ms = IntOf(200) /\ analysis.overlaps = <<>>) =>
                 subtitles[1].start_time.ms = IntOf(1200)
           /\ (before[1].start_time.ms = IntOf(15000)
               /\ analysis.overlaps = <<>>) =>
                 subtitles[1].start_time.ms = IntOf(13000)

C6_Witness ==
    /\ pc = "fixed"
    /\ Len(suggest_fixes(analysis)) = 2
    /\ IntLess(IntOf(1000), SumOffsets(suggest_fixes(analysis)))

\* analyze_subtitles has been called on the entries of the upload: it
\* returned, or it raised and the except clause answered
Analysed ==
    /\ Parsed
    /\ \/ pc = "analyzed"
       \/ pc = "done" /\ analysis = None /\ Len(Entries.value) > 0

\* position i of the analysed list, counted from 0, is in the overlaps list
InOverlaps(i) ==
    /\ analysis # None
    /\ \E k \in 1..Len(analysis.overlaps) : analysis.overlaps[k][1] = i

(* C7: after analyze_subtitles has run on n >= 2 well-formed entries, for
   every position i but the last gap_to_next[i] is start_time[i+1] -
   end_time[i] in seconds, it is negative iff end_time[i] > start_time[i+1],
   and entry i is in the overlaps list iff that holds; the last entry never
   is. Positions count from 0 in the list, from 1 in the sequence. *)
C7_GapSign ==
    (/\ Analysed
     /\ Len(subtitles) >= 2
     /\ \A k \in 1..Len(subtitles) : WellFormedEntry(subtitles[k])) =>
        /\ \A i \in 1..(Len(subtitles) - 1) :
              LET gap == gap_to_next(subtitles[i])
                  overlapping == IntLess(subtitles[i + 1].start_time.ms,
                                         subtitles[i].end_time.ms)
              IN /\ gap = total_seconds(TdSub(subtitles[i + 1].start_time,
                                              subtitles[i].end_time))
                 /\ Less(gap, IntOf(0)) <=> overlapping
                 /\ InOverlaps(i - 1) <=> overlapping
        /\ ~InOverlaps(Len(subtitles) - 1)

\* the lines the parser's loop sees
StrippedLines(text) ==
    LET lines == Split(Strip(text), Newline)
    IN [k \in 1..Len(lines) |-> Strip(lines[k])]

\* the maximal runs of non-blank lines
RECURSIVE Runs(_, _)
Runs(lines, run) ==
    IF lines = <<>> THEN (IF run = <<>> THEN <<>> ELSE <<run>>)
    ELSE IF Head(lines) = <<>>
         THEN (IF run = <<>> THEN <<>> ELSE <<run>>) \o Runs(Tail(lines), <<>>)
         ELSE Runs(Tail(lines), Append(run, Head(lines)))

BlocksOf(text) == Runs(StrippedLines(text), <<>>)

IsTimeRange(line) ==
    LET parts == Split(line, Arrow)
    IN /\ Len(parts) >= 2
       /\ ~Raised(parse_time(parts[1]))
       /\ ~Raised(parse_time(parts[2]))

\* index line, time range, text lines
WellFormedBlock(b) == Len(b) >= 2 /\ IsIntLiteral(b[1]) /\ IsTimeRange(b[2])

\* index line, then a line that is no time range
MalformedBlock(b) == Len(b) >= 2 /\ IsIntLiteral(b[1]) /\ ~IsTimeRange(b[2])

EntryOf(b) ==
    LET parts == Split(b[2], Arrow)
    IN Subtitle(IntValue(b[1]), parse_time(parts[1]), parse_time(parts[2]),
                SubSeq(b, 3, Len(b)))

Without(seq, j) ==
    [k \in 1..(Len(seq) - 1) |-> IF k < j THEN seq[k] ELSE seq[k + 1]]

RECURSIVE WellFormedEntries(_)
WellFormedEntries(blocks) ==
    IF blocks = <<>> THEN <<>>
    ELSE (IF WellFormedBlock(Head(blocks)) THEN <<EntryOf(Head(blocks))>> ELSE <<>>)
         \o WellFormedEntries(Tail(blocks))

RECURSIVE IsSubsequence(_, _)
IsSubsequence(a, b) ==
    IF a = <<>> THEN TRUE
    ELSE IF b = <<>> THEN FALSE
    ELSE IF Head(a) = Head(b) THEN IsSubsequence(Tail(a), Tail(b))
    ELSE IsSubsequence(a, Tail(b))

\* no entry comes from block j: the result is that of the text without it
NothingFrom(blocks, j) ==
    LET rest == parse_srt(File(Without(blocks, j)))
    IN ~Raised(rest) /\ subtitles = rest.value

(* C8: a block with an integer index line followed by a line that is no
   time range yields no entry, whatever its other lines are, and the
   well-formed blocks are returned in input order; parse_srt raises only
   where there is no well-formed block to return. *)
C8_BlockDropped ==
    /\ pc = "parse raised" => WellFormedEntries(BlocksOf(content)) = <<>>
    /\ pc = "parsed" =>
          LET blocks == BlocksOf(content)
          IN /\ \A j \in 1..Len(blocks) :
                   MalformedBlock(blocks[j]) => NothingFrom(blocks, j)
             /\ IsSubsequence(WellFormedEntries(blocks), subtitles)

(* C9: every entry parse_srt returns has its start_time and end_time set
   from a time-range line; an index line followed by a blank line or by the
   end of the input yields no entry. *)
C9_TimesAlwaysSet ==
    pc \in {"parsed", "written", "write raised", "reparsed"} =>
        \A k \in 1..Len(subtitles) : HasTimes(subtitles[k])

(* C10: when the parsed list has at least two entries and no negative
   start_time or end_time, the list apply_fixes returns has none either. *)
C10_TimesStayNonNegative ==
    (/\ pc = "fixed"
     /\ Len(before) >= 2
     /\ \A k \in 1..Len(before) :
           ~before[k].start_time.ms.neg /\ ~before[k].end_time.ms.neg) =>
        \A k \in 1..Len(subtitles) :
            ~subtitles[k].start_time.ms.neg /\ ~subtitles[k].end_time.ms.neg

====
